---- MODULE Spec2Model ----
(***************************************************************************)
(* The typed host/guest function bridge of lib/runtime-core/src/           *)
(* typed_func.rs: WasmTrapInfo, the WasmTypeList tuple implementations     *)
(* (impl_traits!), WasmTypeList::call, ExternalFunction::to_raw with its   *)
(* generated entry point wrap, and the Func handle (from_raw_parts, new,   *)
(* params, returns, get_vm_func, call, to_export).                         *)
(*                                                                         *)
(* The engine side (the invoke function, the code that runs behind a code  *)
(* pointer, do_early_trap) and the scalar codec of types.rs are not part   *)
(* of typed_func.rs; they are modelled from the specification's engine     *)
(* contract and value codec sections.                                      *)
(***************************************************************************)
EXTENDS Integers, Sequences, FiniteSets, TLC

VARIABLES
    wasmFunc,   \* <<>> or <<h>>: the live Func<Args, Rets, Wasm>
    hostFunc,   \* <<>> or <<h>>: the live Func<Args, Rets, Host>
    made,       \* what the constructors were last given / what to_raw last did
    call,       \* per host thread: the frame of WasmTypeList::call
    obs,        \* the value returned by the last params/returns/get_vm_func/to_export
    scratch     \* the operands of the type-list functions applied alone

vars == <<wasmFunc, hostFunc, made, call, obs, scratch>>

(***************************************************************************)
(* Bounds of the model.                                                    *)
(***************************************************************************)
NumSeeds == 2

Seeds == 0 .. (NumSeeds - 1)

(***************************************************************************)
(* Option<T>                                                               *)
(***************************************************************************)
None == <<>>

Some(x) == <<x>>

(***************************************************************************)
(* WasmTrapInfo and its Display implementation.                            *)
(***************************************************************************)
WasmTrapInfo ==
    { "Unreachable", "IncorrectCallIndirectSignature", "MemoryOutOfBounds",
      "CallIndirectOOB", "IllegalArithmetic", "MisalignedAtomicAccess",
      "Unknown" }

\* (a TLA+ string cannot hold a backquote: the two phrases that quote
\* call_indirect carry an apostrophe in its place)
to_string(trap) ==
    CASE trap = "Unreachable" -> "unreachable"
      [] trap = "IncorrectCallIndirectSignature" -> "incorrect 'call_indirect' signature"
      [] trap = "MemoryOutOfBounds" -> "memory out-of-bounds access"
      [] trap = "CallIndirectOOB" -> "'call_indirect' out-of-bounds"
      [] trap = "IllegalArithmetic" -> "illegal arithmetic operation"
      [] trap = "MisalignedAtomicAccess" -> "misaligned atomic access"
      [] trap = "Unknown" -> "unknown"

(***************************************************************************)
(* Value codec (types.rs: WasmExternType, NativeWasmType).  A scalar is    *)
(* carried as its bit pattern, a little-endian sequence of 16-bit limbs:   *)
(* two limbs for i32 and f32, four for i64 and f64.  A slot (u64) is four  *)
(* limbs.                                                                  *)
(***************************************************************************)
Type == { "I32", "I64", "F32", "F64" }

\* the host scalar types that cross the boundary
HostType == { "i32", "i64", "f32", "f64" }

\* size of a scalar in 16-bit limbs
LimbsOf(ty) == IF ty \in { "i32", "f32" } THEN 2 ELSE 4

SlotLimbs == 4

ZeroSlot == [i \in 1 .. SlotLimbs |-> 0]

\* <T as WasmExternType>::Native::TYPE, the value type of the host type T
TYPE(T) ==
    CASE T = "i32" -> "I32"
      [] T = "i64" -> "I64"
      [] T = "f32" -> "F32"
      [] T = "f64" -> "F64"

\* WasmExternType::to_native / from_native: the four scalars are their own
\* native type
to_native(v) == v

from_native(n) == n

\* NativeWasmType::to_binary: widen the bit pattern to 64 bits, upper limbs 0
to_binary(n) ==
    [i \in 1 .. SlotLimbs |-> IF i <= LimbsOf(n.ty) THEN n.bits[i] ELSE 0]

\* NativeWasmType::from_binary for the type ty: keep the low limbs of the slot
from_binary(ty, slot) ==
    [ty |-> ty, bits |-> [i \in 1 .. LimbsOf(ty) |-> slot[i]]]

(***************************************************************************)
(* Tuple shapes and tuples.  impl_traits! is instantiated for the arities  *)
(* 0 ..= 12 (S0 .. S12).                                                   *)
(***************************************************************************)
MaxArity == 12

TypeCycle == << "i32", "i64", "f32", "f64" >>

\* the shape of arity n whose first element type is TypeCycle[off + 1]
Shape(n, off) == [i \in 1 .. n |-> TypeCycle[((i - 1 + off) % 4) + 1]]

Shapes == { Shape(n, off) : n \in 0 .. MaxArity, off \in 0 .. 3 }

\* high limbs that matter: zero, all ones, sign bit, quiet-NaN with payload
HiLimbs == << 0, 65535, 32768, 32705 >>

BitsAt(ty, i, s) ==
    LET lo == (i * 257 + s * 4099) % 65536
        hi == HiLimbs[((i + s) % 4) + 1]
    IN  IF LimbsOf(ty) = 2 THEN << lo, hi >>
        ELSE << lo, (i + 7 * s) % 65536, (3 * i + s) % 65536, hi >>

\* the tuple of shape sh whose elements are drawn by seed s
Tuple(sh, s) == [i \in 1 .. Len(sh) |-> [ty |-> sh[i], bits |-> BitsAt(sh[i], i, s)]]

Tuples == { Tuple(sh, s) : sh \in Shapes, s \in Seeds }

ShapeOf(t) == [i \in 1 .. Len(t) |-> t[i].ty]

(***************************************************************************)
(* impl WasmTypeList for ( $( $x ),* )                                      *)
(***************************************************************************)
\* types listing one entry less than the arity
types_short(sh) ==
    [i \in 1 .. (IF Len(sh) = 0 THEN 0 ELSE Len(sh) - 1) |-> TYPE(sh[i])]

\* fn types() -> &'static [Type]: &[$( $x::Native::TYPE ),*]
RECURSIVE types(_)
types(sh) ==
    IF Len(sh) = 0 THEN <<>>
    ELSE << TYPE(Head(sh)) >> \o types(Tail(sh))

\* fn empty_ret_array(): [0; count_idents!( $( $x ),* )]
empty_ret_array(sh) == [i \in 1 .. Len(sh) |-> ZeroSlot]

\* from_ret_array binding the slots in the reverse order
from_ret_array_reversed(sh, array) ==
    [i \in 1 .. Len(sh) |->
        from_native(from_binary(sh[i], array[Len(sh) + 1 - i]))]

\* fn from_ret_array(array): let [A, B, ..] = array;
\*   ( from_native(from_binary(A)), from_native(from_binary(B)), .. )
from_ret_array(sh, array) ==
    [i \in 1 .. Len(sh) |-> from_native(from_binary(sh[i], array[i]))]

\* fn into_c_struct(self): let (A, B, ..) = self; Sn(to_native(A), to_native(B), ..)
into_c_struct(t) ==
    [struct |-> "S", fields |-> [i \in 1 .. Len(t) |-> to_native(t[i])]]

\* fn from_c_struct(c_struct): let Sn(A, B, ..) = c_struct; (from_native(A), ..)
from_c_struct(c_struct) ==
    [i \in 1 .. Len(c_struct.fields) |-> from_native(c_struct.fields[i])]

\* let args = [ $( $x.to_native().to_binary() ),* ];
pack_args(t) == [i \in 1 .. Len(t) |-> to_binary(to_native(t[i]))]

(***************************************************************************)
(* Pointers.  A code pointer (NonNull<vm::Func>) is an address together    *)
(* with what it was made from: the generated entry point wrap of an        *)
(* adapter kind and callable type, the raw bits of a callable, or a Wasm   *)
(* function handed to from_raw_parts.                                      *)
(***************************************************************************)
NULL == 0

AdapterKinds == { "ExplicitVmCtx", "ImplicitVmCtx" }

\* where the linker placed a symbol
AddrOf(sym) ==
    CASE sym = "foo" -> 8192
      [] sym = "wrap::<ExplicitVmCtx>" -> 16384
      [] sym = "wrap::<ImplicitVmCtx>" -> 20480

\* the address of the Rust function foo, as a fn pointer holds it
AddrOfFoo == AddrOf("foo")

\* the address at which the monomorphised wrap::<.., FN> is placed
AddrOfWrap(kind, fn) ==
    (IF kind = "ExplicitVmCtx"
     THEN AddrOf("wrap::<ExplicitVmCtx>") ELSE AddrOf("wrap::<ImplicitVmCtx>"))
        + (IF fn = "foo" THEN 0 ELSE 64)

WrapPtr(kind, fn) == [addr |-> AddrOfWrap(kind, fn), tag |-> "wrap", kind |-> kind, fn |-> fn]

RawPtr(bits) == [addr |-> bits, tag |-> "raw", kind |-> "-", fn |-> "-"]

WasmFnPtr(a) == [addr |-> a, tag |-> "wasm", kind |-> "-", fn |-> "-"]

\* mem::size_of::<usize>()
SizeOfUsize == 8

(***************************************************************************)
(* The callables handed to Func::new: what mem::size_of::<Self>() is, the  *)
(* bits transmute_copy reads from a pointer-sized one, and whether the     *)
(* callable holds captured state.                                          *)
(***************************************************************************)
Callables ==
    { \* fn foo(..) { .. } passed by name: a zero-sized fn item
      [name |-> "foo", size |-> 0, bits |-> 0, captures |-> FALSE],
      \* |..| { .. } capturing nothing: a zero-sized closure
      [name |-> "closure", size |-> 0, bits |-> 0, captures |-> FALSE],
      \* foo as fn(..) -> ..: a function pointer, its bits are foo's address
      [name |-> "foo_ptr", size |-> SizeOfUsize, bits |-> AddrOfFoo, captures |-> FALSE],
      \* move |..| capturing a local i32
      [name |-> "captures_i32", size |-> 4, bits |-> 0, captures |-> TRUE],
      \* move |..| capturing a local usize holding 24576
      [name |-> "captures_usize", size |-> SizeOfUsize, bits |-> 24576, captures |-> TRUE],
      \* move |..| capturing a local usize holding 0
      [name |-> "captures_zero", size |-> SizeOfUsize, bits |-> 0, captures |-> TRUE],
      \* move |..| capturing two usize locals
      [name |-> "captures_pair", size |-> 2 * SizeOfUsize, bits |-> 0, captures |-> TRUE] }

\* the message of the assert_eq! (the backquotes around Func written as apostrophes)
CaptureMessage == "you cannot use a closure that captures state for 'Func'."

(***************************************************************************)
(* ExternalFunction::to_raw, for both adapter kinds.  A call either        *)
(* returns a pointer or panics with a message.                             *)
(***************************************************************************)
NoPtr == [addr |-> NULL, tag |-> "-", kind |-> "-", fn |-> "-"]

Returned(p) == [ok |-> TRUE, ptr |-> p, panic |-> ""]

Panicked(msg) == [ok |-> FALSE, ptr |-> NoPtr, panic |-> msg]

UnwrapMessage == "called 'Option::unwrap()' on a 'None' value"

\* NonNull::new(p).unwrap()
NonNull_new_unwrap(p) ==
    IF p.addr = NULL THEN Panicked(UnwrapMessage) ELSE Returned(p)

\* impl ExternalFunction<ExplicitVmCtx, Args, Rets> for FN: fn to_raw(&self)
to_raw_explicit(c) ==
    IF c.size = 0
    THEN NonNull_new_unwrap(WrapPtr("ExplicitVmCtx", c.name))
    ELSE IF c.size # SizeOfUsize
         THEN Panicked(CaptureMessage)
         ELSE NonNull_new_unwrap(RawPtr(c.bits))

\* impl ExternalFunction<ImplicitVmCtx, Args, Rets> for FN: fn to_raw(&self)
to_raw_implicit(c) ==
    IF c.size = 0
    THEN NonNull_new_unwrap(WrapPtr("ImplicitVmCtx", c.name))
    ELSE IF c.size # SizeOfUsize
         THEN Panicked(CaptureMessage)
         ELSE NonNull_new_unwrap(RawPtr(c.bits))

\* f.to_raw() for F: ExternalFunction<Kind, Args, Rets>
to_raw(kind, c) ==
    IF kind = "ExplicitVmCtx" THEN to_raw_explicit(c) ELSE to_raw_implicit(c)

(***************************************************************************)
(* Func: the handle.                                                       *)
(***************************************************************************)
\* Wasm::from_raw_parts(trampoline, invoke, invoke_env)
Wasm_from_raw_parts(trampoline, invoke, invoke_env) ==
    [trampoline |-> trampoline, invoke |-> invoke, invoke_env |-> invoke_env]

\* Func::from_raw_parts(inner, f, ctx) for the type parameters Args, Rets
from_raw_parts(inner, f, ctx, Args, Rets) ==
    [inner |-> inner, f |-> f, ctx |-> ctx, Args |-> Args, Rets |-> Rets]

\* new filling ctx with a dangling non-null pointer
new_dangling_ctx(kind, c, Args, Rets) ==
    LET raw == to_raw(kind, c)
    IN  IF raw.ok
        THEN Some([inner |-> "Host", f |-> raw.ptr, ctx |-> 1,
                   Args |-> Args, Rets |-> Rets])
        ELSE None

\* Func::new(f) for the type parameters Kind, Args, Rets: the handle, or
\* nothing when to_raw panicked
new(kind, c, Args, Rets) ==
    LET raw == to_raw(kind, c)
    IN  IF raw.ok
        THEN Some([inner |-> "Host", f |-> raw.ptr, ctx |-> NULL,
                   Args |-> Args, Rets |-> Rets])
        ELSE None

\* Func::params(&self)
params(h) == types(h.Args)

\* Func::returns(&self)
returns(h) == types(h.Rets)

\* Func::get_vm_func(&self)
get_vm_func(h) == h.f

\* FuncSig::new(params, returns)
FuncSig_new(ps, rs) == [params |-> ps, returns |-> rs]

\* to_export building the signature with params and returns exchanged
to_export_swapped(h) ==
    [func |-> h.f, ctx |-> "Internal",
     signature |-> FuncSig_new(types(h.Rets), types(h.Args))]

\* impl IsExport for Func: fn to_export(&self)
to_export(h) ==
    [func |-> h.f, ctx |-> "Internal",
     signature |-> FuncSig_new(types(h.Args), types(h.Rets))]

(***************************************************************************)
(* RuntimeError and the Result of a call.                                  *)
(***************************************************************************)
Ok(results) == [tag |-> "Ok", val |-> results, msg |-> "", data |-> None]

\* Err(RuntimeError::Error { data })
Error(data) == [tag |-> "Error", val |-> <<>>, msg |-> "", data |-> Some(data)]

\* Err(RuntimeError::Trap { msg })
Trap(msg) == [tag |-> "Trap", val |-> <<>>, msg |-> msg, data |-> None]

(***************************************************************************)
(* WasmTypeList::call (the body the macro generates for every arity) and   *)
(* Func::call.                                                             *)
(***************************************************************************)
\* pub fn call(&self, a, b, ..): what WasmTypeList::call is given
Func_call(h, tuple) ==
    [self |-> tuple, f |-> h.f, wasm |-> h.inner, ctx |-> h.ctx, Rets |-> h.Rets]

\* call_locals with trap starting as the first variant of the enum
call_locals_trap_first_variant(self, Rets) ==
    [args       |-> pack_args(self),
     rets       |-> empty_ret_array(Rets),
     trap       |-> "Unreachable",
     user_error |-> None]

\* the locals of call before invoke: args, rets, trap, user_error
call_locals(self, Rets) ==
    [args       |-> pack_args(self),
     rets       |-> empty_ret_array(Rets),
     trap       |-> "Unknown",
     user_error |-> None]

\* rets, trap and user_error kept in one place for every call, the first
\* activation's
call_out_ptrs_shared(t) ==
    [rets |-> "t1", trap |-> "t1", user_error |-> "t1"]

\* rets.as_mut().as_mut_ptr(), &mut trap, &mut user_error: the addresses of
\* the locals of this activation of call, the one running on thread t
call_out_ptrs(t) ==
    [rets |-> t, trap |-> t, user_error |-> t]

\* invoke called without the handle's invoke_env
call_invoke_without_env(p, locals) ==
    [invoke     |-> p.wasm.invoke,
     trampoline |-> p.wasm.trampoline,
     ctx        |-> p.ctx,
     f          |-> p.f,
     args       |-> locals.args,
     invoke_env |-> None]

\* the arguments (wasm.invoke)( .. ) receives; rets, trap and user_error are
\* passed by pointer to the locals
call_invoke(p, locals) ==
    [invoke     |-> p.wasm.invoke,
     trampoline |-> p.wasm.trampoline,
     ctx        |-> p.ctx,
     f          |-> p.f,
     args       |-> locals.args,
     invoke_env |-> p.wasm.invoke_env]

\* call_result with the two failure branches tested in the other order: a
\* written trap reason hides the host error
call_result_trap_first(Rets, flag, rets, trap, user_error) ==
    IF flag
    THEN Ok(from_ret_array(Rets, rets))
    ELSE IF trap # "Unknown" \/ user_error = None
         THEN Trap(to_string(trap))
         ELSE Error(user_error[1])

\* what call returns once invoke has returned flag
call_result(Rets, flag, rets, trap, user_error) ==
    IF flag
    THEN Ok(from_ret_array(Rets, rets))
    ELSE IF user_error # None
         THEN Error(user_error[1])
         ELSE Trap(to_string(trap))

(***************************************************************************)
(* The generated entry point wrap.  The callable's behaviour on this       *)
(* invocation is an input: it returns a value, returns Err(e), or panics.  *)
(* wrap yields what it returns to the engine and the payloads it hands to  *)
(* do_early_trap.                                                          *)
(***************************************************************************)
NoBox == [any |-> ""]

\* let b: Box<_> = err.into(); b as Box<dyn Any>
Box(err) == [any |-> err]

Return(val) == [kind |-> "Return", val |-> val, err |-> "", payload |-> NoBox]

Err(e) == [kind |-> "Err", val |-> <<>>, err |-> e, payload |-> NoBox]

Panic(payload) == [kind |-> "Panic", val |-> <<>>, err |-> "", payload |-> payload]

Behaviours(Rets) ==
    { Return(Tuple(Rets, s)) : s \in Seeds }
        \cup { Err("boom"), Panic(Box("explicit panic")) }

\* panic::catch_unwind(AssertUnwindSafe(|| f(..).report()))
catch_unwind(beh) ==
    CASE beh.kind = "Return" -> [caught |-> FALSE, ok |-> TRUE, beh |-> beh]
      [] beh.kind = "Err" -> [caught |-> FALSE, ok |-> FALSE, beh |-> beh]
      [] beh.kind = "Panic" -> [caught |-> TRUE, ok |-> FALSE, beh |-> beh]

\* wrap whose panic arm returns an empty aggregate instead of trapping early
wrap_explicit_swallows_panic(beh) ==
    LET r == catch_unwind(beh)
    IN  IF ~r.caught /\ r.ok
        THEN [returned |-> Some(into_c_struct(r.beh.val)), hook |-> <<>>]
        ELSE IF ~r.caught
             THEN [returned |-> None, hook |-> << Box(r.beh.err) >>]
             ELSE [returned |-> Some(into_c_struct(<<>>)), hook |-> <<>>]

\* extern fn wrap of the ExplicitVmCtx adapter
wrap_explicit(beh) ==
    LET r == catch_unwind(beh)
    IN  IF ~r.caught /\ r.ok
        THEN [returned |-> Some(into_c_struct(r.beh.val)), hook |-> <<>>]
        ELSE IF ~r.caught
             THEN [returned |-> None, hook |-> << Box(r.beh.err) >>]
             ELSE [returned |-> None, hook |-> << r.beh.payload >>]

\* extern fn wrap of the ImplicitVmCtx adapter
wrap_implicit(beh) ==
    LET r == catch_unwind(beh)
    IN  IF ~r.caught /\ r.ok
        THEN [returned |-> Some(into_c_struct(r.beh.val)), hook |-> <<>>]
        ELSE IF ~r.caught
             THEN [returned |-> None, hook |-> << Box(r.beh.err) >>]
             ELSE [returned |-> None, hook |-> << r.beh.payload >>]

wrap(kind, beh) ==
    IF kind = "ExplicitVmCtx" THEN wrap_explicit(beh) ELSE wrap_implicit(beh)

(***************************************************************************)
(* The inputs of the model.                                                *)
(***************************************************************************)
Threads == { "t1", "t2" }

MainThread == "t1"

\* the trampoline triples the engine supplies
WasmInners ==
    { Wasm_from_raw_parts("trampoline", "invoke", env) : env \in { None, Some(28672) } }

\* the Wasm function pointers (NonNull: never null) and vm::Ctx pointers
\* from_raw_parts is given
WasmFns == { WasmFnPtr(4096) }

CtxPtrs == { NULL, 12288 }

\* <<Args, Rets>> of the handles that are called
CallSigs ==
    { << Shape(0, 0), Shape(1, 0) >>,
      << Shape(2, 0), Shape(2, 2) >>,
      << Shape(MaxArity, 1), Shape(MaxArity, 3) >> }

\* <<Args, Rets>> of the host functions that are imported
HostSigs == { << Shape(2, 0), Shape(2, 1) >> }

\* <<Args, Rets>> covering every arity 0 ..= 12 on both sides
AllSigs ==
    { << Shape(n, off), Shape(MaxArity - n, (off + 1) % 4) >> :
        n \in 0 .. MaxArity, off \in 0 .. 3 }

(***************************************************************************)
(* State.                                                                  *)
(***************************************************************************)
\* what the three locals invoke stores through hold when it has stored
\* nothing: Rets::empty_ret_array(), WasmTrapInfo::Unknown, None
NoStored(Rets) ==
    [rets |-> empty_ret_array(Rets), trap |-> "Unknown", user_error |-> None]

IdleFrame ==
    [pc          |-> "idle",
     Rets        |-> <<>>,      \* the type parameter Rets of this call
     self        |-> <<>>,      \* the argument tuple
     f           |-> None,      \* the parameter f: self.f
     wasm        |-> None,      \* the parameter wasm: self.inner
     ctx         |-> None,      \* the parameter ctx: self.ctx
     args        |-> <<>>,      \* let args = [..]
     rets        |-> <<>>,      \* let mut rets
     trap        |-> "Unknown", \* let mut trap
     user_error  |-> None,      \* let mut user_error
     invoke      |-> None,      \* what invoke was called with
     invokes     |-> 0,         \* how many times this call called invoke
     out         |-> None,      \* the pointers invoke was given to write through
     alongside   |-> FALSE,     \* invoke was called while another invoke ran
     stored      |-> NoStored(<<>>), \* what the engine running this invoke stored
     trapWritten |-> FALSE,     \* the engine wrote through the trap pointer
     flag        |-> FALSE,     \* what invoke returned
     wrap        |-> None,      \* the last call the engine made of an import
     outcome     |-> None]      \* what call returned

NoExport ==
    [func |-> NoPtr, ctx |-> "-", signature |-> FuncSig_new(<<>>, <<>>)]

NoObs ==
    [op |-> "none", of |-> "-", self |-> None, types |-> <<>>, ptr |-> NoPtr,
     export |-> NoExport, again |-> FALSE, prev |-> NoExport]

NoScratch ==
    [t |-> <<>>, c_struct |-> None, from_c |-> None, array |-> None,
     from_array |-> None, types |-> None, empty |-> None]

NoMade == [wasm |-> None, host |-> None]

Handle(of) == IF of = "Wasm" THEN wasmFunc ELSE hostFunc

\* no call is in progress on any thread
Quiescent == \A t \in Threads : call[t].pc = "idle"

\* the thread is not inside a call, nor holding the Result of one
AtRest(t) == call[t].pc = "idle"

Init ==
    /\ wasmFunc = None
    /\ hostFunc = None
    /\ made = NoMade
    /\ call = [t \in Threads |-> IdleFrame]
    /\ obs = NoObs
    /\ scratch = NoScratch

(***************************************************************************)
(* Construction and drop of handles.                                       *)
(***************************************************************************)
FromRawParts(inner, f, ctx, sig) ==
    /\ Quiescent
    /\ wasmFunc' = Some(from_raw_parts(inner, f, ctx, sig[1], sig[2]))
    /\ made' = [made EXCEPT !.wasm =
                  Some([inner |-> inner, f |-> f, ctx |-> ctx,
                        Args |-> sig[1], Rets |-> sig[2]])]
    /\ obs' = NoObs
    /\ UNCHANGED <<hostFunc, call, scratch>>

\* let h = Func::new(c): h is bound only when to_raw returned
FuncNew(kind, c, sig) ==
    /\ Quiescent
    /\ hostFunc' = new(kind, c, sig[1], sig[2])
    /\ made' = [made EXCEPT !.host =
                  Some([kind |-> kind, c |-> c, Args |-> sig[1], Rets |-> sig[2],
                        raw |-> to_raw(kind, c)])]
    /\ obs' = NoObs
    /\ UNCHANGED <<wasmFunc, call, scratch>>

DropWasm ==
    /\ Quiescent
    /\ wasmFunc # None
    /\ wasmFunc' = None
    /\ made' = [made EXCEPT !.wasm = None]
    /\ obs' = NoObs
    /\ UNCHANGED <<hostFunc, call, scratch>>

DropHost ==
    /\ Quiescent
    /\ hostFunc # None
    /\ hostFunc' = None
    /\ made' = [made EXCEPT !.host = None]
    /\ obs' = NoObs
    /\ UNCHANGED <<wasmFunc, call, scratch>>

(***************************************************************************)
(* The read-only operations of a handle.                                   *)
(***************************************************************************)
Params(t, of) ==
    /\ AtRest(t)
    /\ Handle(of) # None
    /\ obs' = [NoObs EXCEPT !.op = "params", !.of = of, !.self = Handle(of),
                            !.types = params(Handle(of)[1])]
    /\ UNCHANGED <<wasmFunc, hostFunc, made, call, scratch>>

Returns(t, of) ==
    /\ AtRest(t)
    /\ Handle(of) # None
    /\ obs' = [NoObs EXCEPT !.op = "returns", !.of = of, !.self = Handle(of),
                            !.types = returns(Handle(of)[1])]
    /\ UNCHANGED <<wasmFunc, hostFunc, made, call, scratch>>

GetVmFunc(t) ==
    /\ AtRest(t)
    /\ wasmFunc # None
    /\ obs' = [NoObs EXCEPT !.op = "get_vm_func", !.of = "Wasm", !.self = wasmFunc,
                            !.ptr = get_vm_func(wasmFunc[1])]
    /\ UNCHANGED <<wasmFunc, hostFunc, made, call, scratch>>

ToExport(t, of) ==
    /\ AtRest(t)
    /\ Handle(of) # None
    /\ obs' = [NoObs EXCEPT !.op = "to_export", !.of = of, !.self = Handle(of),
                            !.export = to_export(Handle(of)[1]),
                            !.again = (obs.op = "to_export" /\ obs.of = of),
                            !.prev = IF obs.op = "to_export" /\ obs.of = of
                                     THEN obs.export ELSE NoExport]
    /\ UNCHANGED <<wasmFunc, hostFunc, made, call, scratch>>

(***************************************************************************)
(* A call on the Wasm handle: Func::call and WasmTypeList::call up to the  *)
(* call of invoke, the call of invoke, then from the return of invoke to   *)
(* the return of call.                                                     *)
(***************************************************************************)
\* Func::call copies the handle's fields into the parameters of
\* WasmTypeList::call, which builds its four locals
CallEnter(t, s) ==
    /\ call[t].pc = "idle"
    /\ wasmFunc # None
    /\ LET h      == wasmFunc[1]
           p      == Func_call(h, Tuple(h.Args, s))
           locals == call_locals(p.self, p.Rets)
       IN  call' = [call EXCEPT ![t] =
                      [IdleFrame EXCEPT
                         !.pc = "locals",
                         !.Rets = p.Rets,
                         !.self = p.self,
                         !.f = Some(p.f),
                         !.wasm = Some(p.wasm),
                         !.ctx = Some(p.ctx),
                         !.args = locals.args,
                         !.rets = locals.rets,
                         !.trap = locals.trap,
                         !.user_error = locals.user_error,
                         !.stored = NoStored(p.Rets)]]
    /\ obs' = NoObs
    /\ UNCHANGED <<wasmFunc, hostFunc, made, scratch>>

\* if (wasm.invoke)( .. ): control passes to the engine
CallInvoke(t) ==
    /\ call[t].pc = "locals"
    /\ LET fr     == call[t]
           p      == [self |-> fr.self, f |-> fr.f[1], wasm |-> fr.wasm[1],
                      ctx |-> fr.ctx[1], Rets |-> fr.Rets]
           locals == [args |-> fr.args, rets |-> fr.rets, trap |-> fr.trap,
                      user_error |-> fr.user_error]
       IN  call' = [call EXCEPT ![t].pc = "engine",
                                ![t].invoke = Some(call_invoke(p, locals)),
                                ![t].invokes = fr.invokes + 1,
                                ![t].out = Some(call_out_ptrs(t)),
                                ![t].alongside =
                                    \E u \in Threads \ { t } : call[u].pc = "engine"]
    /\ obs' = NoObs
    /\ UNCHANGED <<wasmFunc, hostFunc, made, scratch>>

CallExit(t) ==
    /\ call[t].pc = "returned"
    /\ LET fr == call[t]
       IN  call' = [call EXCEPT ![t].pc = "done",
                                ![t].outcome =
                                    Some(call_result(fr.Rets, fr.flag, fr.rets,
                                                     fr.trap, fr.user_error))]
    /\ obs' = NoObs
    /\ UNCHANGED <<wasmFunc, hostFunc, made, scratch>>

\* the caller takes the Result; the frame is gone
CallDrop(t) ==
    /\ call[t].pc = "done"
    /\ call' = [call EXCEPT ![t] = IdleFrame]
    /\ obs' = NoObs
    /\ UNCHANGED <<wasmFunc, hostFunc, made, scratch>>

(***************************************************************************)
(* The engine, inside invoke (engine contract): it may write a trap reason *)
(* through trap_out, write results through the rets pointer, call an       *)
(* imported host function through its code pointer, and return a flag.     *)
(***************************************************************************)
EngineWriteTrap(t, reason) ==
    /\ call[t].pc = "engine"
    /\ call' = [call EXCEPT ![call[t].out[1].trap].trap = reason,
                            ![t].trapWritten = TRUE,
                            ![t].stored.trap = reason]
    /\ obs' = NoObs
    /\ UNCHANGED <<wasmFunc, hostFunc, made, scratch>>

\* the engine stores the encoded results, slot i for the i-th result
EngineWriteRets(t, s) ==
    /\ call[t].pc = "engine"
    /\ LET slots == pack_args(Tuple(call[t].Rets, s))
       IN  call' = [call EXCEPT ![call[t].out[1].rets].rets = slots,
                                ![t].stored.rets = slots]
    /\ obs' = NoObs
    /\ UNCHANGED <<wasmFunc, hostFunc, made, scratch>>

EngineReturn(t, flag) ==
    /\ call[t].pc = "engine"
    /\ call' = [call EXCEPT ![t].pc = "returned", ![t].flag = flag]
    /\ obs' = NoObs
    /\ UNCHANGED <<wasmFunc, hostFunc, made, scratch>>

\* RunnableModule::do_early_trap(data): records the box as the host error of
\* the running invoke and jumps back to it; invoke then returns false
do_early_trap(c, t, data) ==
    [c EXCEPT ![c[t].out[1].user_error].user_error = Some(data),
              ![t].stored.user_error = Some(data),
              ![t].flag = FALSE,
              ![t].pc = "returned"]

\* an import the running function calls ends in do_early_trap(data)
EngineHostError(t, data) ==
    /\ call[t].pc = "engine"
    /\ call' = do_early_trap(call, t, data)
    /\ obs' = NoObs
    /\ UNCHANGED <<wasmFunc, hostFunc, made, scratch>>

\* what lives at an address the engine jumps to
CodeAt(addr) == IF addr = AddrOfFoo THEN "foo" ELSE "not code"

WrapLog(ptr, beh, returned, hook, escaped, ctx_written) ==
    [ptr |-> ptr, beh |-> beh, returned |-> returned, hook |-> hook,
     escaped |-> escaped, ctx_written |-> ctx_written]

\* a scalar read from a register or stack slot the callee did not set
Indeterminate(ty) == [ty |-> ty, bits |-> [j \in 1 .. LimbsOf(ty) |-> 43981]]

\* what the engine can read as the returned aggregate after a callable was
\* entered through its own bits.  The engine calls the pointer as
\* extern "C" fn(&mut Ctx, ..) -> Sn; the callable is a Rust function
\* returning Result<Rets, E>: the two do not agree on where arguments and
\* results are, so each field the engine reads is the callable's value or
\* whatever the place held, and nothing the callable returned on Err
RawReturns(beh, Rets) ==
    { [struct |-> "raw",
       fields |-> [i \in 1 .. Len(Rets) |->
                     IF i \in lost THEN Indeterminate(Rets[i]) ELSE beh.val[i]]] :
        lost \in IF beh.kind = "Return"
                 THEN SUBSET (1 .. Len(Rets))
                 ELSE { 1 .. Len(Rets) } }

\* the engine calls the code pointer of the imported host function; beh is how
\* the host callable behaves on this invocation
EngineCallImport(t, beh) ==
    /\ call[t].pc = "engine"
    /\ hostFunc # None
    /\ beh \in Behaviours(hostFunc[1].Rets)
    /\ LET ptr == hostFunc[1].f
           fr  == call[t]
       IN  \/ /\ ptr.tag = "wrap"
              /\ LET w   == wrap(ptr.kind, beh)
                     log == Some(WrapLog(ptr, beh, w.returned, w.hook, FALSE, FALSE))
                 IN  call' = IF w.hook = <<>>
                             THEN [call EXCEPT ![t].wrap = log]
                             ELSE [do_early_trap(call, t, w.hook[1])
                                      EXCEPT ![t].wrap = log]
           \* the pointer is the callable's own bits: a Rust function entered
           \* directly, under a calling convention it was not compiled for.
           \* What it writes as its result may land in the vm::Ctx the engine
           \* passed; a panic in it unwinds into the engine's frames
           \/ /\ ptr.tag = "raw"
              /\ CodeAt(ptr.addr) = "foo"
              /\ beh.kind # "Panic"
              /\ \E r \in RawReturns(beh, hostFunc[1].Rets), ctx_written \in BOOLEAN :
                    call' = [call EXCEPT ![t].wrap =
                               Some(WrapLog(ptr, beh, Some(r), <<>>, FALSE,
                                            ctx_written))]
           \* or the callable, handed an argument where it expects its
           \* &mut Ctx, faults on it before it returns or panics, and the
           \* process dies
           \/ /\ ptr.tag = "raw"
              /\ CodeAt(ptr.addr) = "foo"
              /\ \E ctx_written \in BOOLEAN :
                    call' = [call EXCEPT ![t].pc = "aborted",
                                         ![t].wrap =
                                            Some(WrapLog(ptr, beh, None, <<>>, FALSE,
                                                         ctx_written))]
           \/ /\ ptr.tag = "raw"
              /\ CodeAt(ptr.addr) = "foo"
              /\ beh.kind = "Panic"
              /\ \E end \in { "unwound", "aborted" }, ctx_written \in BOOLEAN :
                    call' = [call EXCEPT ![t].pc = end,
                                         ![t].wrap =
                                            Some(WrapLog(ptr, beh, None, <<>>, TRUE,
                                                         ctx_written))]
    /\ obs' = NoObs
    /\ UNCHANGED <<wasmFunc, hostFunc, made, scratch>>

\* no callable ran
NoBehaviour == [kind |-> "-", val |-> <<>>, err |-> "", payload |-> NoBox]

\* the engine calls a code pointer that is captured data, not code: the jump
\* is undefined; the process dies, or whatever ran comes back to the engine
EngineJumpToData(t) ==
    /\ call[t].pc = "engine"
    /\ hostFunc # None
    /\ hostFunc[1].f.tag = "raw"
    /\ CodeAt(hostFunc[1].f.addr) # "foo"
    /\ \E end \in { "engine", "aborted" }, ctx_written \in BOOLEAN :
          call' = [call EXCEPT ![t].pc = end,
                               ![t].wrap =
                                  Some(WrapLog(hostFunc[1].f, NoBehaviour, None,
                                               <<>>, FALSE, ctx_written))]
    /\ obs' = NoObs
    /\ UNCHANGED <<wasmFunc, hostFunc, made, scratch>>

(***************************************************************************)
(* The bridge driven by one host thread.                                   *)
(***************************************************************************)
Next ==
    \/ \E inner \in WasmInners, f \in WasmFns, ctx \in CtxPtrs, sig \in CallSigs :
          FromRawParts(inner, f, ctx, sig)
    \/ \E kind \in AdapterKinds, c \in Callables, sig \in HostSigs :
          FuncNew(kind, c, sig)
    \/ DropWasm
    \/ DropHost
    \/ \E of \in { "Wasm", "Host" } : Params(MainThread, of)
    \/ \E of \in { "Wasm", "Host" } : Returns(MainThread, of)
    \/ GetVmFunc(MainThread)
    \/ \E of \in { "Wasm", "Host" } : ToExport(MainThread, of)
    \/ \E s \in Seeds : CallEnter(MainThread, s)
    \/ CallInvoke(MainThread)
    \/ \E reason \in WasmTrapInfo : EngineWriteTrap(MainThread, reason)
    \/ \E s \in Seeds : EngineWriteRets(MainThread, s)
    \/ \E beh \in UNION { Behaviours(sig[2]) : sig \in HostSigs } :
          EngineCallImport(MainThread, beh)
    \/ EngineJumpToData(MainThread)
    \/ \E flag \in BOOLEAN : EngineReturn(MainThread, flag)
    \/ CallExit(MainThread)
    \/ CallDrop(MainThread)

Spec == Init /\ [][Next]_vars

(***************************************************************************)
(* Calls on one Wasm handle from every thread at once.  The handle is made *)
(* before the threads start; the engine runs each invoke on the thread     *)
(* that called it and may trap, store results, take a host error from an   *)
(* import, and return, in any interleaving with the other invokes.         *)
(***************************************************************************)
\* <<Args, Rets>> of the handle the threads share
SharedSig == << Shape(2, 0), Shape(2, 2) >>

\* what the handle the threads share is made from
SharedParts ==
    [inner |-> Wasm_from_raw_parts("trampoline", "invoke", Some(28672)),
     f     |-> WasmFnPtr(4096),
     ctx   |-> 12288,
     Args  |-> SharedSig[1],
     Rets  |-> SharedSig[2]]

\* the reasons the engine traps with while several invokes run
ConcurrentTraps == { "Unreachable", "MemoryOutOfBounds" }

\* the boxes the imports trap early with
HostErrors == { Box("boom") }

InitConcurrent ==
    /\ wasmFunc = Some(from_raw_parts(SharedParts.inner, SharedParts.f,
                                      SharedParts.ctx, SharedParts.Args,
                                      SharedParts.Rets))
    /\ hostFunc = None
    /\ made = [NoMade EXCEPT !.wasm = Some(SharedParts)]
    /\ call = [t \in Threads |-> IdleFrame]
    /\ obs = NoObs
    /\ scratch = NoScratch

NextConcurrent ==
    \E t \in Threads :
        \/ \E s \in Seeds : CallEnter(t, s)
        \/ CallInvoke(t)
        \/ \E reason \in ConcurrentTraps : EngineWriteTrap(t, reason)
        \/ \E s \in Seeds : EngineWriteRets(t, s)
        \/ \E data \in HostErrors : EngineHostError(t, data)
        \/ \E flag \in BOOLEAN : EngineReturn(t, flag)
        \/ CallExit(t)
        \/ CallDrop(t)

SpecConcurrent == InitConcurrent /\ [][NextConcurrent]_vars

(***************************************************************************)
(* The type-list functions applied alone to a tuple t, and params/returns  *)
(* applied to handles of every arity.                                      *)
(***************************************************************************)
InitTypeList ==
    \E sig \in AllSigs, s \in Seeds :
        /\ wasmFunc = Some(from_raw_parts(Wasm_from_raw_parts("trampoline", "invoke", None),
                                          WasmFnPtr(4096), 12288, sig[1], sig[2]))
        /\ hostFunc = new("ExplicitVmCtx",
                          [name |-> "foo", size |-> 0, bits |-> 0, captures |-> FALSE],
                          sig[2], sig[1])
        /\ made = NoMade
        /\ call = [t \in Threads |-> IdleFrame]
        /\ obs = NoObs
        /\ scratch = [NoScratch EXCEPT !.t = Tuple(sig[1], s)]

IntoCStruct ==
    /\ scratch.c_struct = None
    /\ scratch' = [scratch EXCEPT !.c_struct = Some(into_c_struct(scratch.t))]
    /\ UNCHANGED <<wasmFunc, hostFunc, made, call, obs>>

FromCStruct ==
    /\ scratch.c_struct # None
    /\ scratch.from_c = None
    /\ scratch' = [scratch EXCEPT !.from_c = Some(from_c_struct(scratch.c_struct[1]))]
    /\ UNCHANGED <<wasmFunc, hostFunc, made, call, obs>>

\* the buffer whose i-th slot is the encoding of the i-th element of t
StoreRetArray ==
    /\ scratch.array = None
    /\ scratch' = [scratch EXCEPT !.array = Some(pack_args(scratch.t))]
    /\ UNCHANGED <<wasmFunc, hostFunc, made, call, obs>>

FromRetArray ==
    /\ scratch.array # None
    /\ scratch.from_array = None
    /\ scratch' = [scratch EXCEPT !.from_array =
                      Some(from_ret_array(ShapeOf(scratch.t), scratch.array[1]))]
    /\ UNCHANGED <<wasmFunc, hostFunc, made, call, obs>>

Types ==
    /\ scratch.types = None
    /\ scratch' = [scratch EXCEPT !.types = Some(types(ShapeOf(scratch.t)))]
    /\ UNCHANGED <<wasmFunc, hostFunc, made, call, obs>>

EmptyRetArray ==
    /\ scratch.empty = None
    /\ scratch' = [scratch EXCEPT !.empty = Some(empty_ret_array(ShapeOf(scratch.t)))]
    /\ UNCHANGED <<wasmFunc, hostFunc, made, call, obs>>

NextTypeList ==
    \/ IntoCStruct
    \/ FromCStruct
    \/ StoreRetArray
    \/ FromRetArray
    \/ Types
    \/ EmptyRetArray
    \/ \E of \in { "Wasm", "Host" } : Params(MainThread, of)
    \/ \E of \in { "Wasm", "Host" } : Returns(MainThread, of)

SpecTypeList == InitTypeList /\ [][NextTypeList]_vars

(***************************************************************************)
(* Properties.                                                             *)
(***************************************************************************)
\* the results a return buffer holds for the shape Rets: one per slot, of the
\* slot's type, carrying the slot's low limbs
DecodedFrom(Rets, rets, results) ==
    /\ Len(results) = Len(Rets)
    /\ \A i \in 1 .. Len(Rets) :
          /\ results[i].ty = Rets[i]
          /\ \A j \in 1 .. LimbsOf(Rets[i]) : results[i].bits[j] = rets[i][j]

\* C1: the outcome of a call is decided by the flag invoke returned and by
\* whether the host-error slot is populated, and by nothing else: flag true
\* gives Ok of the decoded return buffer whatever trap_out holds; flag false
\* with a host error gives that host error, also when trap_out was written;
\* flag false without a host error gives the trap.
OutcomeByFlagAndHostError ==
    \A t \in Threads :
        call[t].pc = "done" =>
            LET fr  == call[t]
                out == fr.outcome[1]
            IN  /\ fr.flag =>
                      /\ out.tag = "Ok"
                      /\ DecodedFrom(fr.Rets, fr.rets, out.val)
                /\ (~fr.flag /\ fr.user_error # None) =>
                      /\ out.tag = "Error"
                      /\ out.data = fr.user_error
                /\ (~fr.flag /\ fr.user_error = None) =>
                      /\ out.tag = "Trap"
                      /\ out.msg = to_string(fr.trap)
                      /\ out.data = None

\* a call failed with both a written trap reason and a host error
HostErrorWinsReached ==
    \E t \in Threads :
        /\ call[t].pc = "done"
        /\ ~call[t].flag
        /\ call[t].trapWritten
        /\ call[t].trap = "MemoryOutOfBounds"
        /\ call[t].user_error = Some(Box("boom"))
        /\ call[t].outcome[1].tag = "Error"

\* C2: a panic of the host callable never leaves the code pointer the engine
\* called: it is caught there, its payload is handed to the early-trap hook,
\* and the enclosing call returns the host error carrying that payload.
HostPanicNeverCrosses ==
    \A t \in Threads :
        (call[t].wrap # None /\ call[t].wrap[1].beh.kind = "Panic") =>
            LET fr  == call[t]
                log == fr.wrap[1]
            IN  /\ ~log.escaped
                /\ fr.pc \notin { "unwound", "aborted" }
                /\ log.hook = << log.beh.payload >>
                /\ fr.pc = "done" => fr.outcome[1] = Error(log.beh.payload)

\* C3: no handle is constructed from a callable that captures state.
NoHandleForCapturingCallable ==
    (made.host # None /\ made.host[1].c.captures) =>
        /\ hostFunc = None
        /\ ~made.host[1].raw.ok

\* C4 as stated: a Wasm handle has a non-null vm_ctx; a Host handle has a null
\* vm_ctx and the generated entry point as its code pointer.
KindInvariant ==
    /\ wasmFunc # None =>
          /\ wasmFunc[1].inner \in WasmInners
          /\ wasmFunc[1].ctx # NULL
    /\ hostFunc # None =>
          /\ hostFunc[1].ctx = NULL
          /\ hostFunc[1].f.tag = "wrap"

\* C4: every live handle keeps the fields it was constructed with.  A Wasm
\* handle carries the trampoline triple, function pointer and vm_ctx that
\* from_raw_parts was given, the vm_ctx null when a null pointer was given.
\* A Host handle has a null vm_ctx and the code pointer to_raw returned: the
\* generated entry point for a zero-sized callable, the callable's own bits
\* for a pointer-sized one.
HandleKeepsConstruction ==
    /\ wasmFunc # None =>
          /\ made.wasm # None
          /\ LET h == wasmFunc[1]
                 m == made.wasm[1]
             IN  /\ h.inner.trampoline = m.inner.trampoline
                 /\ h.inner.invoke = m.inner.invoke
                 /\ h.inner.invoke_env = m.inner.invoke_env
                 /\ h.f = m.f
                 /\ h.ctx = m.ctx
                 /\ h.Args = m.Args /\ h.Rets = m.Rets
    /\ hostFunc # None =>
          /\ made.host # None
          /\ LET h == hostFunc[1]
                 m == made.host[1]
             IN  /\ h.inner = "Host"
                 /\ h.ctx = NULL
                 /\ h.Args = m.Args /\ h.Rets = m.Rets
                 /\ m.c.size \in { 0, SizeOfUsize }
                 /\ m.c.size = 0 => h.f = WrapPtr(m.kind, m.c.name)
                 /\ m.c.size = SizeOfUsize => h.f = RawPtr(m.c.bits)

\* a call has completed on a Wasm handle made with a null vm_ctx while a Host
\* handle made from a function pointer is live
HandlesAfterCallReached ==
    /\ wasmFunc # None /\ wasmFunc[1].ctx = NULL
    /\ hostFunc # None /\ hostFunc[1].f = RawPtr(AddrOfFoo)
    /\ call[MainThread].pc = "done"
    /\ call[MainThread].wrap # None

\* C5: a failed call without host error returns the Trap that names the reason
\* trap_out held when invoke returned, by its own phrase: the reason the
\* engine wrote, or Unknown when it wrote nothing.
TrapNamesReason ==
    \A t \in Threads :
        (call[t].pc = "done" /\ ~call[t].flag /\ call[t].user_error = None) =>
            LET fr  == call[t]
                out == fr.outcome[1]
            IN  /\ out.tag = "Trap"
                /\ out.msg = to_string(fr.trap)
                /\ \A other \in WasmTrapInfo \ { fr.trap } : to_string(other) # out.msg
                /\ fr.trap = "Unreachable" => out.msg = "unreachable"
                /\ ~fr.trapWritten => out.msg = "unknown"

\* a call failed after the engine wrote Unreachable and no host error
TrapUnreachableReached ==
    \E t \in Threads :
        /\ call[t].pc = "done"
        /\ ~call[t].flag
        /\ call[t].user_error = None
        /\ call[t].trapWritten
        /\ call[t].trap = "Unreachable"

\* C6: packing and unpacking round-trip and keep positions, for every arity
\* 0 ..= 12: from_c_struct(into_c_struct(t)) is t, from_ret_array of the
\* buffer of t's encodings is t, every element stays at its position, and
\* for the empty tuple all of them yield the empty value.
RoundTrip ==
    LET t == scratch.t
    IN  /\ scratch.c_struct # None =>
              /\ Len(scratch.c_struct[1].fields) = Len(t)
              /\ \A i \in 1 .. Len(t) : scratch.c_struct[1].fields[i] = t[i]
        /\ scratch.from_c # None => scratch.from_c[1] = t
        /\ scratch.array # None => Len(scratch.array[1]) = Len(t)
        /\ scratch.from_array # None =>
              /\ Len(scratch.from_array[1]) = Len(t)
              /\ \A i \in 1 .. Len(t) : scratch.from_array[1][i] = t[i]

\* a tuple of arity 12 went through both round trips
RoundTripReached ==
    /\ Len(scratch.t) = MaxArity
    /\ scratch.t[1].ty = "f32" /\ scratch.t[2].ty = "f64"
    /\ scratch.from_c # None
    /\ scratch.from_array # None

\* C7: types() has one entry per element, the i-th the value type of the
\* i-th element type; empty_ret_array() has one zero slot per element; on a
\* handle of either kind params() is that list for Args and returns() that
\* list for Rets.
TypesMatchShape ==
    LET sh     == ShapeOf(scratch.t)
        Is(l, x) == /\ Len(l) = Len(x)
                    /\ \A i \in 1 .. Len(x) : l[i] = TYPE(x[i])
    IN  /\ scratch.types # None => Is(scratch.types[1], sh)
        /\ scratch.empty # None =>
              /\ Len(scratch.empty[1]) = Len(sh)
              /\ \A i \in 1 .. Len(sh) : scratch.empty[1][i] = ZeroSlot
        /\ obs.op = "params" => Is(obs.types, Handle(obs.of)[1].Args)
        /\ obs.op = "returns" => Is(obs.types, Handle(obs.of)[1].Rets)

\* types() and empty_ret_array() were taken of a shape of arity 12 and
\* returns() of a Host handle of that arity
TypesOfTwelveReached ==
    /\ Len(scratch.t) = MaxArity
    /\ scratch.types # None
    /\ scratch.empty # None
    /\ obs.op = "returns" /\ obs.of = "Host"
    /\ Len(obs.types) = MaxArity

\* C8: to_export yields the handle's own code pointer, the Internal context
\* and the signature (params(), returns()) of the handle; it leaves the
\* handle as it was, and a repeated projection yields an equal export.
ExportProjectsHandle ==
    obs.op = "to_export" =>
        LET h == Handle(obs.of)[1]
        IN  /\ Handle(obs.of) = obs.self
            /\ obs.export.func = h.f
            /\ obs.export.ctx = "Internal"
            /\ obs.export.signature.params = params(h)
            /\ obs.export.signature.returns = returns(h)
            /\ obs.again => obs.export = obs.prev

\* a Host handle was projected twice in a row
ExportTwiceReached ==
    /\ obs.op = "to_export"
    /\ obs.of = "Host"
    /\ obs.again
    /\ obs.export.func.tag = "wrap"

\* C9: to_raw classifies a callable by its size alone, the same for both
\* adapters: size 0 returns the generated entry point; pointer size returns
\* the callable's own bits as the code pointer; every other size fails with
\* the fixed message and returns no pointer.  A returned pointer is never
\* null.
ToRawClassifiesBySize ==
    made.host # None =>
        LET m == made.host[1]
            r == m.raw
        IN  /\ m.c.size = 0 => r = Returned(WrapPtr(m.kind, m.c.name))
            /\ m.c.size = SizeOfUsize => r = Returned(RawPtr(m.c.bits))
            /\ m.c.size \notin { 0, SizeOfUsize } => r = Panicked(CaptureMessage)
            /\ r.ok => r.ptr.addr # NULL
            /\ (hostFunc # None) = r.ok

\* C10: an invocation of wrap ends in one of two ways.  The callable returned
\* a value: wrap returns it packed and the hook is not called.  The callable
\* returned Err(e) or panicked: the hook is called once, with the boxed e or
\* with the panic payload, wrap returns nothing, and invoke has failed.
WrapEndsOneWay ==
    \A t \in Threads :
        (call[t].wrap # None /\ call[t].wrap[1].ptr.tag = "wrap") =>
            LET fr  == call[t]
                log == fr.wrap[1]
            IN  \/ /\ log.beh.kind = "Return"
                   /\ log.hook = <<>>
                   /\ log.returned # None
                   /\ log.returned[1].fields = log.beh.val
                \/ /\ log.beh.kind \in { "Err", "Panic" }
                   /\ Len(log.hook) = 1
                   /\ log.beh.kind = "Err" => log.hook[1] = Box(log.beh.err)
                   /\ log.beh.kind = "Panic" => log.hook[1] = log.beh.payload
                   /\ log.returned = None
                   /\ fr.pc \in { "returned", "done" }
                   /\ ~fr.flag
                   /\ fr.user_error = Some(log.hook[1])

\* the entry point of the ExplicitVmCtx adapter caught a panic
WrapCaughtPanicReached ==
    \E t \in Threads :
        /\ call[t].wrap # None
        /\ call[t].wrap[1].ptr.tag = "wrap"
        /\ call[t].wrap[1].ptr.kind = "ExplicitVmCtx"
        /\ call[t].wrap[1].beh.kind = "Panic"
        /\ call[t].pc = "done"

\* the argument buffer holds the tuple: one slot per element, slot i carrying
\* the bits of the i-th element
EncodedInto(self, args) ==
    /\ Len(args) = Len(self)
    /\ \A i \in 1 .. Len(self) :
          \A j \in 1 .. LimbsOf(self[i].ty) : args[i][j] = self[i].bits[j]

\* C11: within one call on a Wasm handle the steps happen in a fixed order.
\* Before invoke is called the argument buffer already holds every argument,
\* the i-th in slot i, invoke has not been called and nothing is decoded.
\* From the call of invoke on, invoke has been called exactly once, with that
\* argument buffer and with the handle's trampoline, vm_ctx, function pointer
\* and invoke_env unchanged.  No result exists until invoke has returned; once
\* call has returned, the results are the return buffer decoded, slot i into
\* the i-th result, when invoke reported success, and there are no results
\* when it reported failure.
CallStepsInOrder ==
    \A t \in Threads :
        LET fr == call[t]
        IN  /\ fr.pc = "idle" =>
                  fr.invokes = 0 /\ fr.invoke = None /\ fr.outcome = None
            /\ fr.pc = "locals" =>
                  /\ fr.invokes = 0 /\ fr.invoke = None /\ fr.outcome = None
                  /\ EncodedInto(fr.self, fr.args)
            /\ fr.pc \notin { "idle", "locals" } =>
                  /\ fr.invokes = 1
                  /\ fr.invoke # None
                  /\ wasmFunc # None
                  /\ EncodedInto(fr.self, fr.invoke[1].args)
                  /\ fr.invoke[1].invoke = wasmFunc[1].inner.invoke
                  /\ fr.invoke[1].trampoline = wasmFunc[1].inner.trampoline
                  /\ fr.invoke[1].ctx = wasmFunc[1].ctx
                  /\ fr.invoke[1].f = wasmFunc[1].f
                  /\ fr.invoke[1].invoke_env = wasmFunc[1].inner.invoke_env
            /\ fr.pc # "done" => fr.outcome = None
            /\ fr.pc = "done" =>
                  /\ fr.outcome # None
                  /\ fr.flag =>
                        /\ fr.outcome[1].tag = "Ok"
                        /\ DecodedFrom(fr.Rets, fr.rets, fr.outcome[1].val)
                  /\ ~fr.flag =>
                        /\ fr.outcome[1].tag # "Ok"
                        /\ fr.outcome[1].val = <<>>

\* a call of twelve arguments through a handle with an invoke_env and a vm_ctx
\* has returned after the engine stored results and reported failure
FailedCallLeftBufferReached ==
    \E t \in Threads :
        /\ call[t].pc = "done"
        /\ Len(call[t].self) = MaxArity
        /\ call[t].invoke[1].invoke_env # None
        /\ call[t].invoke[1].ctx # NULL
        /\ ~call[t].flag
        /\ call[t].rets # empty_ret_array(call[t].Rets)

\* the step of its own that a call takes next, whatever the other calls are at
OwnStepEnabled(t) ==
    /\ call[t].pc = "idle" => ENABLED (\E s \in Seeds : CallEnter(t, s))
    /\ call[t].pc = "locals" => ENABLED CallInvoke(t)
    /\ call[t].pc = "returned" => ENABLED CallExit(t)
    /\ call[t].pc = "done" => ENABLED CallDrop(t)

\* C12: in every interleaving of calls running at once on the same Wasm
\* handle, each call's outcome is the one that call produces alone from what
\* its own invoke stored and returned.  The argument buffer, return buffer,
\* trap_out and host-error slot of a call hold what that call put there and
\* what its own invoke stored, never what another call's invoke stored; each
\* call can take its next step wherever the other calls are (no lock, no
\* waiting on another call); and the handle stays as it was constructed.
ConcurrentCallsIndependent ==
    /\ wasmFunc # None
    /\ made.wasm # None
    /\ wasmFunc[1].inner = made.wasm[1].inner
    /\ wasmFunc[1].f = made.wasm[1].f
    /\ wasmFunc[1].ctx = made.wasm[1].ctx
    /\ wasmFunc[1].Args = made.wasm[1].Args
    /\ wasmFunc[1].Rets = made.wasm[1].Rets
    /\ \A t \in Threads :
          LET fr == call[t]
          IN  /\ OwnStepEnabled(t)
              /\ fr.pc = "locals" =>
                    /\ EncodedInto(fr.self, fr.args)
                    /\ fr.rets = empty_ret_array(fr.Rets)
                    /\ fr.trap = "Unknown"
                    /\ fr.user_error = None
              /\ fr.pc \in { "engine", "returned", "done" } =>
                    /\ EncodedInto(fr.self, fr.args)
                    /\ fr.rets = fr.stored.rets
                    /\ fr.trap = fr.stored.trap
                    /\ fr.user_error = fr.stored.user_error
              /\ fr.pc = "done" =>
                    fr.outcome =
                        Some(call_result(fr.Rets, fr.flag, fr.stored.rets,
                                         fr.stored.trap, fr.stored.user_error))

\* two calls on the handle whose invokes ran at the same time have both
\* returned, one with the results its invoke stored, the other with the host
\* error of its own invoke, after both invokes wrote a trap reason and results
TwoCallsAtOnceReached ==
    \E t \in Threads, u \in Threads :
        /\ t # u
        /\ call[t].pc = "done" /\ call[u].pc = "done"
        /\ call[t].alongside \/ call[u].alongside
        /\ call[t].outcome[1].tag = "Ok"
        /\ call[u].outcome[1].tag = "Error"
        /\ call[t].trapWritten /\ call[u].trapWritten
        /\ call[t].trap # call[u].trap
        /\ call[t].rets # call[u].rets
        /\ call[u].rets # empty_ret_array(call[u].Rets)

====
